---- MODULE Spec2Model ----
(***************************************************************************)
(* Session store (AuthProvider) and route guard (ProtectedRoute) of the    *)
(* RBAC admin console.  Every asynchronous function of AuthContext.tsx is  *)
(* modelled at the granularity of its awaits: one action issues a request, *)
(* one action per kind of answer resumes the function up to its next       *)
(* await or its return.  The remote API is the environment: it answers     *)
(* each request with any of the envelopes (or failures) the client code    *)
(* distinguishes.                                                          *)
(***************************************************************************)
EXTENDS Integers, Sequences, FiniteSets, TLC

VARIABLES user, permissions, loading, pc, arg, toast, ev, assignments,
          rolePermissions, selectedRole, changes, toggles, fetches, screenEv,
          rendered,
          httpAnswer, apiResult, fetchCalls,
          page

\* state of the RolePermissions screen and of its calls in flight
screenVars ==
  <<rolePermissions, selectedRole, changes, toggles, fetches, screenEv>>

\* what the last render of a list screen put on the page
renderVars == <<rendered>>

\* one call of ApiClient.request: what fetch answers, what request yields
apiVars == <<httpAnswer, apiResult, fetchCalls>>

\* the page the router has mounted and its initial load
loadVars == <<page>>

\* everything outside the AuthProvider
otherVars == <<screenVars, renderVars, apiVars, loadVars>>

vars ==
  <<user, permissions, loading, pc, arg, toast, ev, assignments, otherVars>>

(***************************************************************************)
(* Bounds.                                                                 *)
(***************************************************************************)
\* number of identities the API knows; identity i holds role i
NumUsers == 3
\* number of permissions the API knows
NumPerms == 4

(***************************************************************************)
(* Data of the remote API.                                                 *)
(***************************************************************************)
RoleNameTable == <<"Admin", "Manager", "Super Admin", "admin", "Administrator">>

PermNameTable ==
  <<"user.read", "role.read", "permission.read", "permission.assign",
    "role.delete", "x.y">>

RoleIds == 1..NumUsers

PermIds == 1..NumPerms

Role(r) == [id |-> r, name |-> RoleNameTable[r]]

Permission(p) == [id |-> p, name |-> PermNameTable[p]]

RolePermission(r, p) ==
  [role_id |-> r, permission_id |-> p, permission |-> Permission(p)]

User(u) == [id |-> u, role_id |-> u, role |-> Role(u)]

\* `null` of `User | null`
Null == [id |-> 0, role_id |-> 0, role |-> [id |-> 0, name |-> ""]]

Users == {User(u) : u \in 1..NumUsers}

\* the assignments the API holds when the application starts
InitialAssignments ==
  [r \in RoleIds |->
     CASE r = 1 -> PermIds
       [] r = 2 -> {1}
       [] OTHER -> {1, 3} \cap PermIds]

RECURSIVE SortedSeq(_)
SortedSeq(S) ==
  IF S = {} THEN <<>>
  ELSE LET m == CHOOSE x \in S : \A y \in S : x <= y
       IN  <<m>> \o SortedSeq(S \ {m})

\* data of GET /rolepermissions/role/:roleId
RolePermissionRows(r) ==
  LET ids == SortedSeq(assignments[r])
  IN  [i \in 1..Len(ids) |-> RolePermission(r, ids[i])]

(***************************************************************************)
(* Answers of the API as the callers tell them apart.                      *)
(*   "throw"  the request rejects (transport failure or non-2xx status)    *)
(*   "fail"   a 2xx envelope with success:false                            *)
(*   "nodata" a 2xx envelope with success:true whose data is not usable    *)
(*            (no user / not a list)                                       *)
(*   "ok"     a 2xx envelope with success:true and the data asked for      *)
(***************************************************************************)
Failures == {"throw", "fail", "nodata"}

Callers == {"mount", "login", "refresh", "logout", "register"}

\* callers that run fetchUserData
Hydrators == {"mount", "login"}

NoEvent == [op |-> "none", caller |-> "none", outcome |-> "none",
            returned |-> "none", result |-> FALSE]

Event(op, c, outcome, returned, result) ==
  [op |-> op, caller |-> c, outcome |-> outcome,
   returned |-> returned, result |-> result]

(***************************************************************************)
(* Query predicates.                                                       *)
(***************************************************************************)
\* Array.prototype.includes on a string array: a scan with strict equality
RECURSIVE includes(_, _)
includes(list, x) ==
  IF list = <<>> THEN FALSE
  ELSE IF Head(list) = x THEN TRUE
  ELSE includes(Tail(list), x)

hasRole(roleName) ==
  /\ user # Null
  /\ user.role.name = roleName

isAdminOnlyAdmin == hasRole("Admin")

isAdmin == hasRole("Super Admin") \/ hasRole("Admin")

hasPermissionAdminOverride(permission) ==
  isAdmin \/ includes(permissions, permission)

hasPermission(permission) == includes(permissions, permission)

(***************************************************************************)
(* Bounds of the RolePermissions screen: how many toggles and how many     *)
(* role selections / refreshes a run holds.                                *)
(***************************************************************************)
MaxToggles == 2

MaxFetches == 2

ToggleIds == 1..MaxToggles

FetchIds == 1..MaxFetches

\* a togglePermission call that has not been made
IdleToggle ==
  [pc |-> "idle", role |-> "", perm |-> 0, had |-> FALSE, mut |-> "none",
   ans |-> "none", snap |-> <<>>, clean |-> FALSE, calls |-> <<>>]

\* a fetchRolePermissions call that has not been made
IdleFetch == [pc |-> "idle", role |-> "", ans |-> "none", snap |-> <<>>]

NoScreenEvent == [op |-> "none", task |-> 0, outcome |-> "none"]

ScreenEvent(op, i, outcome) == [op |-> op, task |-> i, outcome |-> outcome]

\* the RolePermissions component as useState initialises it
ScreenUnmounted ==
  /\ rolePermissions = <<>>
  /\ selectedRole = ""
  /\ changes = {}
  /\ toggles = [i \in ToggleIds |-> IdleToggle]
  /\ fetches = [i \in FetchIds |-> IdleFetch]
  /\ screenEv = NoScreenEvent

NothingRendered == rendered = {}

NoAnswer == [kind |-> "none"]

ApiIdle ==
  /\ httpAnswer = NoAnswer
  /\ apiResult = [kind |-> "none"]
  /\ fetchCalls = 0

\* interface DashboardStats as useState initialises it
ZeroStats ==
  [totalUsers |-> 0, totalRoles |-> 0, totalPermissions |-> 0,
   activeUsers |-> 0]

\* no page has been mounted
UnmountedPage ==
  [name |-> "none", pc |-> "unmounted", loading |-> TRUE, held |-> {},
   calls |-> <<>>, results |-> <<>>, stats |-> ZeroStats, toast |-> "none"]

NoPage == page = UnmountedPage

(***************************************************************************)
(* Initial state: the first render of AuthProvider, before its effect.     *)
(***************************************************************************)
Init ==
  /\ user = Null
  /\ permissions = <<>>
  /\ loading = TRUE
  /\ pc = [c \in Callers |-> IF c = "mount" THEN "init" ELSE "idle"]
  /\ arg = [c \in Callers |-> Null]
  /\ toast = "none"
  /\ ev = NoEvent
  /\ assignments = InitialAssignments
  /\ ScreenUnmounted
  /\ NothingRendered
  /\ ApiIdle
  /\ NoPage

(***************************************************************************)
(* AuthProvider: hydration on mount.                                       *)
(***************************************************************************)
\* useEffect(() => { fetchUserData(); }, []) : issues GET /userdata
useEffectMount ==
  /\ pc["mount"] = "init"
  /\ pc' = [pc EXCEPT !["mount"] = "userdata"]
  /\ ev' = Event("mount", "mount", "call", "none", FALSE)
  /\ UNCHANGED <<user, permissions, loading, arg, toast, assignments, otherVars>>

\* where a caller's program counter goes when its function returns
Returned(c) == IF c = "mount" THEN "done" ELSE "idle"

\* the function of the public interface that returns when caller c finishes
ReturnOf(c) == IF c = "mount" THEN "hydrate" ELSE c

\* login's continuation after `await fetchUserData()`: toast and return true
ToastAfter(c) == IF c = "login" THEN "Login successful" ELSE toast

\* fetchUserData, GET /userdata answered with a user: setUser(userData) and
\* fetchPermissions(userData.role_id) issues its request
fetchUserDataOk(c, u) ==
  /\ c \in Hydrators
  /\ pc[c] = "userdata"
  /\ user' = u
  /\ arg' = [arg EXCEPT ![c] = u]
  /\ pc' = [pc EXCEPT ![c] = "perms"]
  /\ ev' = Event("userdata", c, "ok", "none", FALSE)
  /\ UNCHANGED <<permissions, loading, toast, assignments, otherVars>>

\* fetchUserData, GET /userdata rejected or answered without a user: the
\* catch logs, the finally runs setLoading(false); nothing else is written
fetchUserDataFailed(c, answer) ==
  /\ c \in Hydrators
  /\ pc[c] = "userdata"
  /\ answer \in Failures
  /\ loading' = FALSE
  /\ pc' = [pc EXCEPT ![c] = Returned(c)]
  /\ toast' = ToastAfter(c)
  /\ ev' = Event("userdata", c, answer, ReturnOf(c), c = "login")
  /\ UNCHANGED <<user, permissions, arg, assignments, otherVars>>

\* response.data.map(rp => rp.permission.name)
permissionNames(rows) == [i \in 1..Len(rows) |-> rows[i].permission.name]

\* the permission set fetchPermissions(roleId) leaves behind, per answer
fetchPermissions(roleId, answer) ==
  CASE answer = "ok" -> permissionNames(RolePermissionRows(roleId))
    [] answer = "throw" -> <<>>
    [] OTHER -> permissions

\* GET /rolepermissions/role/:roleId settles for caller c; fetchPermissions
\* returns and so does its caller (fetchUserData's finally, then login's
\* toast and `return true`; or refreshPermissions)
fetchPermissionsSettled(c, answer) ==
  /\ c \in Hydrators \cup {"refresh"}
  /\ pc[c] = "perms"
  /\ answer \in Failures \cup {"ok"}
  /\ permissions' = fetchPermissions(arg[c].role_id, answer)
  /\ loading' = IF c \in Hydrators THEN FALSE ELSE loading
  /\ pc' = [pc EXCEPT ![c] = Returned(c)]
  /\ toast' = ToastAfter(c)
  /\ ev' = Event("perms", c, answer, ReturnOf(c), c = "login")
  /\ UNCHANGED <<user, arg, assignments, otherVars>>

\* user gestures reach the provider only after its mount effect has run
Mounted == pc["mount"] # "init"

(***************************************************************************)
(* AuthProvider: login, logout, refreshPermissions.                        *)
(***************************************************************************)
\* login(email, password): issues POST /login
loginCall ==
  /\ Mounted
  /\ pc["login"] = "idle"
  /\ pc' = [pc EXCEPT !["login"] = "login"]
  /\ arg' = [arg EXCEPT !["login"] = Null]
  /\ ev' = Event("login", "login", "call", "none", FALSE)
  /\ UNCHANGED <<user, permissions, loading, toast, assignments, otherVars>>

\* POST /login answered success:true: fetchUserData() issues GET /userdata
loginSucceeded ==
  /\ pc["login"] = "login"
  /\ pc' = [pc EXCEPT !["login"] = "userdata"]
  /\ ev' = Event("login", "login", "ok", "none", FALSE)
  /\ UNCHANGED <<user, permissions, loading, arg, toast, assignments, otherVars>>

loginFailedToast(answer) ==
  IF answer = "fail" THEN "Login failed" ELSE "Login error"

loginFailedClearsSession(answer) ==
  /\ pc["login"] = "login"
  /\ answer \in {"fail", "throw"}
  /\ toast' = loginFailedToast(answer)
  /\ pc' = [pc EXCEPT !["login"] = "idle"]
  /\ ev' = Event("login", "login", answer, "login", FALSE)
  /\ user' = Null
  /\ permissions' = <<>>
  /\ UNCHANGED <<loading, arg, assignments, otherVars>>

\* POST /login answered success:false (else branch) or rejected (catch):
\* a destructive toast and `return false`
loginFailed(answer) ==
  /\ pc["login"] = "login"
  /\ answer \in {"fail", "throw"}
  /\ toast' = loginFailedToast(answer)
  /\ pc' = [pc EXCEPT !["login"] = "idle"]
  /\ ev' = Event("login", "login", answer, "login", FALSE)
  /\ UNCHANGED <<user, permissions, loading, arg, assignments, otherVars>>

\* logout(): issues GET /logout
logoutCall ==
  /\ Mounted
  /\ pc["logout"] = "idle"
  /\ pc' = [pc EXCEPT !["logout"] = "logout"]
  /\ ev' = Event("logout", "logout", "call", "none", FALSE)
  /\ UNCHANGED <<user, permissions, loading, arg, toast, assignments, otherVars>>

\* GET /logout resolves (any 2xx envelope): the rest of the try block runs
logoutResolved(answer) ==
  /\ pc["logout"] = "logout"
  /\ answer \in {"ok", "fail"}
  /\ user' = Null
  /\ permissions' = <<>>
  /\ toast' = "Logged out"
  /\ pc' = [pc EXCEPT !["logout"] = "idle"]
  /\ ev' = Event("logout", "logout", answer, "logout", FALSE)
  /\ UNCHANGED <<loading, arg, assignments, otherVars>>

\* GET /logout rejects: the catch logs and logout returns
logoutRejected ==
  /\ pc["logout"] = "logout"
  /\ pc' = [pc EXCEPT !["logout"] = "idle"]
  /\ ev' = Event("logout", "logout", "throw", "logout", FALSE)
  /\ UNCHANGED <<user, permissions, loading, arg, toast, assignments, otherVars>>

\* refreshPermissions(): fetchPermissions(user.role_id) when there is a user
refreshPermissions ==
  /\ Mounted
  /\ pc["refresh"] = "idle"
  /\ IF user # Null
     THEN /\ pc' = [pc EXCEPT !["refresh"] = "perms"]
          /\ arg' = [arg EXCEPT !["refresh"] = user]
          /\ ev' = Event("refresh", "refresh", "call", "none", FALSE)
     ELSE /\ ev' = Event("refresh", "refresh", "skipped", "refresh", FALSE)
          /\ UNCHANGED <<pc, arg>>
  /\ UNCHANGED <<user, permissions, loading, toast, assignments, otherVars>>

(***************************************************************************)
(* ProtectedRoute.                                                         *)
(***************************************************************************)
\* an optional prop that was not passed
Undefined == "<undefined>"

\* truthiness of an optional string prop
Truthy(s) == s # Undefined /\ s # ""

View(kind, naming) == [view |-> kind, naming |-> naming]

ProtectedRoutePermissionFirst(requiredPermission, requiredRole, requireAdmin) ==
  IF loading THEN View("loading", Undefined)
  ELSE IF user = Null THEN View("redirect", "/login")
  ELSE IF Truthy(requiredPermission) /\ ~hasPermission(requiredPermission)
    THEN View("permission-denied", requiredPermission)
  ELSE IF requireAdmin /\ ~isAdmin THEN View("admin-denied", Undefined)
  ELSE IF Truthy(requiredRole) /\ ~hasRole(requiredRole)
    THEN View("role-denied", requiredRole)
  ELSE View("children", Undefined)

ProtectedRoute(requiredPermission, requiredRole, requireAdmin) ==
  IF loading THEN View("loading", Undefined)
  ELSE IF user = Null THEN View("redirect", "/login")
  ELSE IF requireAdmin /\ ~isAdmin THEN View("admin-denied", Undefined)
  ELSE IF Truthy(requiredRole) /\ ~hasRole(requiredRole)
    THEN View("role-denied", requiredRole)
  ELSE IF Truthy(requiredPermission) /\ ~hasPermission(requiredPermission)
    THEN View("permission-denied", requiredPermission)
  ELSE View("children", Undefined)

(***************************************************************************)
(* Specification.                                                          *)
(***************************************************************************)
Next ==
  \/ useEffectMount
  \/ \E c \in Hydrators, u \in Users : fetchUserDataOk(c, u)
  \/ \E c \in Hydrators, answer \in Failures : fetchUserDataFailed(c, answer)
  \/ \E c \in Callers, answer \in Failures \cup {"ok"} :
       fetchPermissionsSettled(c, answer)
  \/ loginCall
  \/ loginSucceeded
  \/ \E answer \in {"fail", "throw"} : loginFailed(answer)
  \/ logoutCall
  \/ \E answer \in {"ok", "fail"} : logoutResolved(answer)
  \/ logoutRejected
  \/ refreshPermissions

Spec == Init /\ [][Next]_vars

(***************************************************************************)
(* Names the properties quantify over: the names the API knows plus near   *)
(* misses (a category prefix, a wildcard, the empty string, another case). *)
(***************************************************************************)
PermissionQueries ==
  {PermNameTable[i] : i \in DOMAIN PermNameTable} \cup {"user", "*", ""}

RoleQueries ==
  {RoleNameTable[i] : i \in DOMAIN RoleNameTable} \cup {"Super", "ADMIN", ""}

\* the permission names held, as a set
ResolvedPermissionSet == {permissions[i] : i \in DOMAIN permissions}

\* optional props a route may pass to the guard
PermissionProps == {Undefined, "", "x.y", "user.read", "role.read"}

RoleProps == {Undefined, "", "Manager", "Admin"}

(***************************************************************************)
(* Session store properties.                                               *)
(***************************************************************************)
\* C1: when GET /logout rejects, user is null and the permission set is
\* empty by the time logout() returns.
C1_LogoutClearsWhenCallFails ==
  (ev.returned = "logout" /\ ev.outcome = "throw")
    => (user = Null /\ permissions = <<>>)

\* C2: when logout() returns, whatever the state before, user is null and
\* hasPermission(p) is false for every p.
C2_LogoutEndsAnonymous ==
  (ev.returned = "logout")
    => (user = Null /\ \A p \in PermissionQueries : ~hasPermission(p))

\* C3: while loading is true or user is null, hasPermission, hasRole and
\* isAdmin are false for every permission name and role name.
C3_PredicatesFalseUnlessAuthenticated ==
  (loading \/ user = Null)
    => /\ \A p \in PermissionQueries : ~hasPermission(p)
       /\ \A r \in RoleQueries : ~hasRole(r)
       /\ ~isAdmin

\* C4: after a permission resolution that failed (rejected, success:false,
\* or data that is not a list) the permission set is empty.
C4_FailedResolutionClears ==
  (ev.op = "perms" /\ ev.outcome \in Failures) => permissions = <<>>

\* C5: after a fetchUserData whose GET /userdata rejected or answered
\* without a user, user is null, the permission set is empty and loading is
\* false.
C5_FailedHydrateEndsAnonymous ==
  (ev.op = "userdata" /\ ev.outcome \in Failures)
    => (user = Null /\ permissions = <<>> /\ ~loading)

\* C6: when login() returns true, user is the identity GET /userdata
\* returned to it and the permission set is exactly the permission names of
\* the assignments of that identity's role.
C6_LoginTrueMeansAuthenticated ==
  (ev.returned = "login" /\ ev.result)
    => /\ user # Null
       /\ user = arg["login"]
       /\ permissions = permissionNames(RolePermissionRows(user.role_id))

\* C7: the step in which POST /login answers success:false or rejects
\* returns false from login(), emits a failure toast, issues no GET
\* /userdata and leaves user, permissions and loading as they were.
C7_FailedLoginChangesNothing ==
  [][(pc["login"] = "login" /\ ev'.op = "login"
        /\ ev'.outcome \in {"fail", "throw"})
      => /\ ev'.returned = "login" /\ ~ev'.result
         /\ toast' \in {"Login failed", "Login error"}
         /\ pc'["login"] = "idle"
         /\ user' = user /\ permissions' = permissions /\ loading' = loading]_vars

\* C7 witness: a login failed while an identity and permissions were held.
C7_Witness ==
  /\ ev.op = "login" /\ ev.outcome \in {"fail", "throw"}
  /\ user # Null /\ permissions # <<>>

\* C8: hasPermission(p) is true exactly when p is an element of the
\* permission set: no prefix, wildcard or admin override.
C8_HasPermissionIsMembership ==
  \A p \in PermissionQueries :
    hasPermission(p) <=> (p \in ResolvedPermissionSet)

\* C8 witness: an administrator holds user.read and still lacks other names.
C8_Witness ==
  /\ user # Null /\ user.role.name \in {"Admin", "Super Admin"}
  /\ hasPermission("user.read")
  /\ ~hasPermission("user") /\ ~hasPermission("x.y") /\ ~hasPermission("*")

\* C9: isAdmin() is true exactly when the identity's role name is "Super
\* Admin" or "Admin", and hasRole(n) exactly when there is an identity whose
\* role name is n.
C9_IsAdminIffPrivilegedRoleName ==
  /\ isAdmin <=> (hasRole("Super Admin") \/ hasRole("Admin"))
  /\ isAdmin <=> (\E u \in Users : user = u
                    /\ RoleNameTable[u.role.id] \in {"Super Admin", "Admin"})
  /\ \A n \in RoleQueries :
       hasRole(n) <=> (\E u \in Users : user = u /\ RoleNameTable[u.role.id] = n)

\* C9 witness: a Super Admin identity, for which isAdmin() holds through
\* the first of the two names only.
C9_Witness ==
  /\ user # Null /\ user.role.name = "Super Admin"
  /\ isAdmin /\ ~hasRole("Admin") /\ ~hasRole("Super")

(***************************************************************************)
(* Route guard properties.                                                 *)
(***************************************************************************)
\* C10: ProtectedRoute yields the first matching outcome of: loading view
\* if loading; redirect to /login if user is null; admin denial if
\* requireAdmin and the role is not privileged; role denial naming
\* requiredRole if it is set and is not the role's name; permission denial
\* naming requiredPermission if it is set and not held; else the children.
C10_GuardOrder ==
  \A rp \in PermissionProps, rr \in RoleProps, ra \in BOOLEAN :
    LET out == ProtectedRoute(rp, rr, ra)
        authed == ~loading /\ user # Null
        adminOk == ra => user.role.name \in {"Super Admin", "Admin"}
        roleOk == Truthy(rr) => user.role.name = rr
        permOk == Truthy(rp) => rp \in ResolvedPermissionSet
    IN  /\ loading => out.view = "loading"
        /\ (~loading /\ user = Null) => out = View("redirect", "/login")
        /\ (authed /\ ~adminOk) => out.view = "admin-denied"
        /\ (authed /\ adminOk /\ ~roleOk) => out = View("role-denied", rr)
        /\ (authed /\ adminOk /\ roleOk /\ ~permOk)
             => out = View("permission-denied", rp)
        /\ (authed /\ adminOk /\ roleOk /\ permOk) => out.view = "children"

\* C10 witness: a Manager holding only user.read gets the admin denial when
\* requireAdmin and a required permission are both set, and the permission
\* denial naming role.read when only role.read is required.
C10_Witness ==
  /\ ~loading /\ user # Null /\ user.role.name = "Manager"
  /\ permissions = <<"user.read">>
  /\ ProtectedRoute("x.y", Undefined, TRUE).view = "admin-denied"
  /\ ProtectedRoute("role.read", Undefined, FALSE)
       = View("permission-denied", "role.read")
  /\ ProtectedRoute("user.read", "Manager", FALSE).view = "children"

(***************************************************************************)
(* App: the route table.                                                   *)
(***************************************************************************)
\* the paths App.tsx lists under "Protected Routes"
ProtectedPaths ==
  {"/dashboard", "/users", "/roles", "/permissions", "/role-permissions"}

\* the element a path renders: the page itself, or the guard around it
RouteElementAllGuardedByUserRead(path) ==
  CASE path = "/dashboard" -> View("children", Undefined)
    [] path \in {"/users", "/roles", "/permissions", "/role-permissions"}
         -> ProtectedRoute("user.read", Undefined, FALSE)
    [] OTHER -> View("children", Undefined)

RouteElement(path) ==
  CASE path = "/login" -> View("children", Undefined)
    [] path = "/register" -> View("children", Undefined)
    [] path = "/dashboard" -> View("children", Undefined)
    [] path = "/users" -> ProtectedRoute("user.read", Undefined, FALSE)
    [] path = "/roles" -> ProtectedRoute("role.read", Undefined, FALSE)
    [] path = "/permissions"
         -> ProtectedRoute("permission.read", Undefined, FALSE)
    [] path = "/role-permissions"
         -> ProtectedRoute("permission.read", Undefined, FALSE)
    [] OTHER -> View("not-found", Undefined)

\* C11: in the Anonymous state every protected route of the application
\* yields the redirect to /login and renders no page content.
C11_AnonymousIsRedirectedEverywhere ==
  (~loading /\ user = Null)
    => \A path \in ProtectedPaths :
         RouteElement(path) = View("redirect", "/login")

\* C12: /users, /roles, /permissions and /role-permissions render their
\* page only when loading is false, user is non-null and the permission set
\* holds user.read, role.read, permission.read and permission.read
\* respectively.
C12_GuardedPagesNeedTheirPermission ==
  LET shown(path) == RouteElement(path).view = "children"
      authed == ~loading /\ user # Null
  IN  /\ shown("/users") => (authed /\ "user.read" \in ResolvedPermissionSet)
      /\ shown("/roles") => (authed /\ "role.read" \in ResolvedPermissionSet)
      /\ shown("/permissions")
           => (authed /\ "permission.read" \in ResolvedPermissionSet)
      /\ shown("/role-permissions")
           => (authed /\ "permission.read" \in ResolvedPermissionSet)

\* C12 witness: a Manager holding only user.read is shown /users and is
\* denied /roles, /permissions and /role-permissions.
C12_Witness ==
  /\ ~loading /\ user # Null /\ permissions = <<"user.read">>
  /\ RouteElement("/users").view = "children"
  /\ RouteElement("/roles") = View("permission-denied", "role.read")
  /\ RouteElement("/permissions").view = "permission-denied"
  /\ RouteElement("/role-permissions").view = "permission-denied"

(***************************************************************************)
(* Permission-gated affordances of the screens.  A render is the set of    *)
(* affordances it puts on the page, each enabled or disabled; an omitted   *)
(* affordance is not in the set.                                           *)
(***************************************************************************)
sessionVars == <<user, permissions, loading, pc, arg, ev>>

Affordance(screen, name, row, state) ==
  [screen |-> screen, name |-> name, row |-> row, state |-> state]

\* `cond && <element>`
When(cond, screen, name, row) ==
  IF cond THEN {Affordance(screen, name, row, "enabled")} ELSE {}

UsersRenderUpdateUngated ==
  When(hasPermission("user.create"), "users", "Add User", 0)
    \cup UNION {
      When(TRUE, "users", "View details", u.id)
        \cup When(TRUE, "users", "Edit user", u.id)
        \cup When(hasPermission("user.update"), "users", "Activate", u.id)
        \cup When(hasPermission("user.delete"), "users", "Delete user", u.id)
      : u \in Users}

UsersRender ==
  When(hasPermission("user.create"), "users", "Add User", 0)
    \cup UNION {
      When(TRUE, "users", "View details", u.id)
        \cup When(hasPermission("user.update"), "users", "Edit user", u.id)
        \cup When(hasPermission("user.update"), "users", "Activate", u.id)
        \cup When(hasPermission("user.delete"), "users", "Delete user", u.id)
      : u \in Users}

RolesRender ==
  When(hasPermission("role.create"), "roles", "Add Role", 0)
    \cup UNION {
      When(TRUE, "roles", "View permissions", r)
        \cup When(hasPermission("role.update"), "roles", "Edit role", r)
        \cup When(hasPermission("role.update"), "roles", "Activate", r)
        \cup When(hasPermission("role.delete")
                    /\ Role(r).name \notin {"Super Admin", "Admin"},
                  "roles", "Delete role", r)
      : r \in RoleIds}

PermissionsRender ==
  When(hasPermission("permission.create"), "permissions", "Add Permission", 0)
    \cup UNION {
      When(TRUE, "permissions", "View usage", p)
        \cup When(TRUE, "permissions", "Copy permission name", p)
        \cup When(hasPermission("permission.delete"),
                  "permissions", "Delete permission", p)
      : p \in PermIds}

\* one Checkbox per permission once a role is selected, with
\* disabled={!hasPermission('permission.assign')}
RolePermissionsRender ==
  IF selectedRole = "" THEN {}
  ELSE {Affordance("role-permissions", "Checkbox", p,
                   IF hasPermission("permission.assign")
                     THEN "enabled" ELSE "disabled") : p \in PermIds}

\* the Quick Actions card of the Dashboard
DashboardRender ==
  When(hasPermission("user.create"), "dashboard", "Create New User", 0)
    \cup When(hasPermission("role.create"), "dashboard", "Add Role", 0)
    \cup When(hasPermission("permission.create"),
              "dashboard", "Create Permission", 0)

Screens == {"users", "roles", "permissions", "role-permissions", "dashboard"}

Render(screen) ==
  CASE screen = "users" -> UsersRender
    [] screen = "roles" -> RolesRender
    [] screen = "permissions" -> PermissionsRender
    [] screen = "role-permissions" -> RolePermissionsRender
    [] screen = "dashboard" -> DashboardRender

\* the permission names the affordances test
GatingNames ==
  <<"user.create", "user.update", "user.delete", "role.create", "role.update",
    "role.delete", "permission.create", "permission.delete",
    "permission.assign">>

\* the subsequence of names picked by the set S of indexes
RECURSIVE Pick(_, _)
Pick(names, S) ==
  IF names = <<>> THEN <<>>
  ELSE (IF Len(names) \in S THEN Pick(SubSeq(names, 1, Len(names) - 1), S)
                                   \o <<names[Len(names)]>>
        ELSE Pick(SubSeq(names, 1, Len(names) - 1), S))

\* a session holding any list of the gating names, on any screen, with or
\* without a role selected on the assignment screen
RenderInit ==
  /\ user \in Users
  /\ user.id = 1
  /\ \E S \in SUBSET (1..Len(GatingNames)) : permissions = Pick(GatingNames, S)
  /\ loading = FALSE
  /\ pc = [c \in Callers |-> IF c = "mount" THEN "done" ELSE "idle"]
  /\ arg = [c \in Callers |-> Null]
  /\ toast = "none"
  /\ ev = NoEvent
  /\ assignments = InitialAssignments
  /\ rolePermissions = <<>>
  /\ selectedRole \in {"", "1"}
  /\ changes = {}
  /\ toggles = [i \in ToggleIds |-> IdleToggle]
  /\ fetches = [i \in FetchIds |-> IdleFetch]
  /\ screenEv = NoScreenEvent
  /\ NothingRendered
  /\ ApiIdle
  /\ NoPage

renderScreen(screen) ==
  /\ rendered' = Render(screen)
  /\ UNCHANGED <<sessionVars, toast, assignments, screenVars, apiVars,
                 loadVars>>

RenderNext == \E screen \in Screens : renderScreen(screen)

SpecRender == RenderInit /\ [][RenderNext]_vars

\* the permission an affordance depends on ("" when it depends on none)
RequiredBy(name) ==
  CASE name \in {"Add User", "Create New User"} -> "user.create"
    [] name \in {"Edit user"} -> "user.update"
    [] name = "Delete user" -> "user.delete"
    [] name = "Add Role" -> "role.create"
    [] name = "Edit role" -> "role.update"
    [] name = "Delete role" -> "role.delete"
    [] name \in {"Add Permission", "Create Permission"} -> "permission.create"
    [] name = "Delete permission" -> "permission.delete"
    [] name = "Checkbox" -> "permission.assign"
    [] OTHER -> ""

RequiredByRow(a) ==
  IF a.name = "Activate"
    THEN (IF a.screen = "users" THEN "user.update" ELSE "role.update")
  ELSE RequiredBy(a.name)

MaxScreenItems == 2

ScreenRoleIds == 1..MaxScreenItems

ScreenPermIds == 1..MaxScreenItems

\* role.id.toString() of the SelectItem values
RoleIdString == <<"1", "2", "3", "4", "5">>

toString(r) == RoleIdString[r]

parseInt(s) == CHOOSE n \in DOMAIN RoleIdString : RoleIdString[n] = s

\* how a call of the screen can settle: a 2xx envelope with success:true,
\* a 2xx envelope with success:false, a rejection
ScreenAnswers == {"ok", "fail", "throw"}

\* rolePermissions.some(rp => rp.permission_id === permissionId)
hasRolePermission(permissionId) ==
  \E i \in DOMAIN rolePermissions :
    rolePermissions[i].permission_id = permissionId

\* the screen is mounted behind an authenticated session whose permissions
\* were resolved from the identity's role; no role is selected yet
ScreenInit ==
  /\ assignments = InitialAssignments
  /\ user \in Users
  /\ permissions = permissionNames(RolePermissionRows(user.role_id))
  /\ loading = FALSE
  /\ pc = [c \in Callers |-> IF c = "mount" THEN "done" ELSE "idle"]
  /\ arg = [c \in Callers |-> Null]
  /\ toast = "none"
  /\ ev = NoEvent
  /\ ScreenUnmounted
  /\ NothingRendered
  /\ ApiIdle
  /\ NoPage

\* frame of every step of the screen
ScreenFrame == UNCHANGED <<sessionVars, renderVars, apiVars, loadVars>>

\* the first call slot that is free
FirstIdle(tasks, i) ==
  /\ tasks[i].pc = "idle"
  /\ \A j \in DOMAIN tasks : j < i => tasks[j].pc # "idle"

\* fetchRolePermissions(roleId) issues GET /rolepermissions/role/:roleId
SentFetch(roleId) ==
  [pc |-> "sent", role |-> roleId, ans |-> "none", snap |-> <<>>]

\* onValueChange={setSelectedRole} with another role, then the effect on
\* [selectedRole] calls fetchRolePermissions(selectedRole)
selectRole(i, r) ==
  /\ FirstIdle(fetches, i)
  /\ toString(r) # selectedRole
  /\ selectedRole' = toString(r)
  /\ fetches' = [fetches EXCEPT ![i] = SentFetch(toString(r))]
  /\ UNCHANGED <<rolePermissions, changes, toggles, screenEv, toast,
                 assignments>>
  /\ ScreenFrame

\* the Refresh button: fetchRolePermissions(selectedRole), disabled while no
\* role is selected
refreshClick(i) ==
  /\ FirstIdle(fetches, i)
  /\ selectedRole # ""
  /\ fetches' = [fetches EXCEPT ![i] = SentFetch(selectedRole)]
  /\ UNCHANGED <<rolePermissions, selectedRole, changes, toggles, screenEv,
                 toast, assignments>>
  /\ ScreenFrame

\* the API answers with the rows of the role selected when it reads
AnsweredSelectedRole(task) ==
  [task EXCEPT !.pc = "answered",
               !.snap = RolePermissionRows(parseInt(selectedRole))]

\* the API reads the rows of GET /rolepermissions/role/:roleId
Answered(task) ==
  [task EXCEPT !.pc = "answered",
               !.snap = RolePermissionRows(parseInt(task.role))]

\* a call that has settled keeps how it settled
Settled(task, answer) ==
  [task EXCEPT !.pc = "done", !.ans = answer, !.snap = <<>>]

fetchAnswered(i) ==
  /\ fetches[i].pc = "sent"
  /\ fetches' = [fetches EXCEPT ![i] = Answered(@)]
  /\ UNCHANGED <<rolePermissions, selectedRole, changes, toggles, screenEv,
                 toast, assignments>>
  /\ ScreenFrame

\* the list fetchRolePermissions leaves behind, per answer
fetchRolePermissionsIgnoresAnswer(answer, rows) == rolePermissions

fetchRolePermissions(answer, rows) ==
  IF answer = "ok" THEN rows ELSE rolePermissions

\* the toast of fetchRolePermissions' catch
fetchRolePermissionsToast(answer) ==
  IF answer = "throw" THEN "Error" ELSE toast

\* the response of a selection / refresh fetch lands
fetchLanded(i, answer) ==
  /\ fetches[i].pc = "answered"
  /\ answer \in ScreenAnswers
  /\ rolePermissions' = fetchRolePermissions(answer, fetches[i].snap)
  /\ toast' = fetchRolePermissionsToast(answer)
  /\ fetches' = [fetches EXCEPT ![i] = Settled(@, answer)]
  /\ UNCHANGED <<selectedRole, changes, toggles, screenEv, assignments>>
  /\ ScreenFrame

\* a request as the API sees it
Call(method, roleId, permissionId) ==
  [method |-> method, role_id |-> roleId, permission_id |-> permissionId]

\* the call togglePermission makes: on which role and permission, and
\* whether it found the permission in the list
Mutating(permissionId, had) ==
  [IdleToggle EXCEPT
     !.pc = "mutating", !.role = selectedRole, !.perm = permissionId,
     !.had = had,
     !.calls = <<Call(IF had THEN "DELETE" ELSE "POST",
                      parseInt(selectedRole), permissionId)>>]

togglePermissionAlwaysGrants(i, permissionId) ==
  /\ FirstIdle(toggles, i)
  /\ IF selectedRole = "" \/ ~hasPermission("permission.assign")
     THEN /\ screenEv' = ScreenEvent("toggle", i, "skipped")
          /\ UNCHANGED toggles
     ELSE /\ toggles' = [toggles EXCEPT ![i] = Mutating(permissionId, FALSE)]
          /\ screenEv' = ScreenEvent("toggle", i, "POST")
  /\ UNCHANGED <<rolePermissions, selectedRole, changes, fetches, toast,
                 assignments>>
  /\ ScreenFrame

\* togglePermission whose guard tests the selection only
togglePermissionUnchecked(i, permissionId) ==
  /\ FirstIdle(toggles, i)
  /\ IF selectedRole = ""
     THEN /\ screenEv' = ScreenEvent("toggle", i, "skipped")
          /\ UNCHANGED toggles
     ELSE /\ toggles' = [toggles EXCEPT ![i] =
               Mutating(permissionId, hasRolePermission(permissionId))]
          /\ screenEv' = ScreenEvent("toggle", i,
               IF hasRolePermission(permissionId) THEN "DELETE" ELSE "POST")
  /\ UNCHANGED <<rolePermissions, selectedRole, changes, fetches, toast,
                 assignments>>
  /\ ScreenFrame

\* togglePermission(permissionId) up to its first await: the guard, then
\* DELETE /rolepermissions when the list holds the permission, else POST
togglePermission(i, permissionId) ==
  /\ FirstIdle(toggles, i)
  /\ IF selectedRole = "" \/ ~hasPermission("permission.assign")
     THEN /\ screenEv' = ScreenEvent("toggle", i, "skipped")
          /\ UNCHANGED toggles
     ELSE /\ toggles' = [toggles EXCEPT ![i] =
               Mutating(permissionId, hasRolePermission(permissionId))]
          /\ screenEv' = ScreenEvent("toggle", i,
               IF hasRolePermission(permissionId) THEN "DELETE" ELSE "POST")
  /\ UNCHANGED <<rolePermissions, selectedRole, changes, fetches, toast,
                 assignments>>
  /\ ScreenFrame

\* the API applies a grant or a revoke that it answers with success:true
Applied(task, answer) ==
  IF answer = "ok"
    THEN [assignments EXCEPT ![parseInt(task.role)] =
            IF task.had THEN @ \ {task.perm} ELSE @ \cup {task.perm}]
    ELSE assignments

\* another call's window between its mutation and its refetch is disturbed
\* by a mutation of the same role
Disturbed(task, by, answer) ==
  IF task.pc = "refetching" /\ task.role = by.role /\ answer = "ok"
    THEN [task EXCEPT !.clean = FALSE]
    ELSE task

\* the POST / DELETE settles: a rejection goes to the catch (Error toast);
\* any 2xx envelope goes on to `await fetchRolePermissions(selectedRole)`
mutationLanded(i, answer) ==
  /\ toggles[i].pc = "mutating"
  /\ answer \in ScreenAnswers
  /\ assignments' = Applied(toggles[i], answer)
  /\ toggles' = [j \in ToggleIds |->
       IF j = i
         THEN [toggles[i] EXCEPT
                 !.mut = answer,
                 !.pc = IF answer = "throw" THEN "done" ELSE "refetching",
                 !.clean = answer # "throw",
                 !.calls = IF answer = "throw" THEN @
                           ELSE Append(@, Call("GET", parseInt(toggles[i].role), 0))]
         ELSE Disturbed(toggles[j], toggles[i], answer)]
  /\ toast' = IF answer = "throw" THEN "Error" ELSE toast
  /\ UNCHANGED <<rolePermissions, selectedRole, changes, fetches, screenEv>>
  /\ ScreenFrame

\* the API handles the refetch of a toggle
refetchAnswered(i) ==
  /\ toggles[i].pc = "refetching"
  /\ toggles' = [toggles EXCEPT ![i] = Answered(@)]
  /\ UNCHANGED <<rolePermissions, selectedRole, changes, fetches, screenEv,
                 toast, assignments>>
  /\ ScreenFrame

\* a refetch that also re-resolves the session's permissions when the role
\* on display is the user's own
refetchLandedRefreshesSession(i, answer) ==
  /\ toggles[i].pc = "answered"
  /\ answer \in ScreenAnswers
  /\ rolePermissions' = fetchRolePermissions(answer, toggles[i].snap)
  /\ changes' = changes \cup {toggles[i].perm}
  /\ toast' = "Success"
  /\ toggles' = [toggles EXCEPT ![i] = Settled(@, answer)]
  /\ permissions' =
       IF answer = "ok" /\ parseInt(toggles[i].role) = user.role_id
         THEN permissionNames(toggles[i].snap)
         ELSE permissions
  /\ UNCHANGED <<selectedRole, fetches, screenEv, assignments>>
  /\ UNCHANGED <<user, loading, pc, arg, ev, renderVars, apiVars, loadVars>>

\* the refetch lands: fetchRolePermissions returns, then setChanges and the
\* Success toast
refetchLanded(i, answer) ==
  /\ toggles[i].pc = "answered"
  /\ answer \in ScreenAnswers
  /\ rolePermissions' = fetchRolePermissions(answer, toggles[i].snap)
  /\ changes' = changes \cup {toggles[i].perm}
  /\ toast' = "Success"
  /\ toggles' = [toggles EXCEPT ![i] = Settled(@, answer)]
  /\ UNCHANGED <<selectedRole, fetches, screenEv, assignments>>
  /\ ScreenFrame

\* the selection fetch has settled: a role is selected (or none is) and the
\* list holds the rows the API has for it
RoleSelected(roleId) ==
  /\ selectedRole = roleId
  /\ rolePermissions =
       IF roleId = "" THEN <<>> ELSE RolePermissionRows(parseInt(roleId))
  /\ changes = {}
  /\ toggles = [i \in ToggleIds |-> IdleToggle]
  /\ fetches = [i \in FetchIds |-> IdleFetch]
  /\ screenEv = NoScreenEvent

\* the operator selects roles and refreshes
SelectInit == ScreenInit

SelectNext ==
  \/ \E i \in FetchIds, r \in ScreenRoleIds : selectRole(i, r)
  \/ \E i \in FetchIds : refreshClick(i)
  \/ \E i \in FetchIds : fetchAnswered(i)
  \/ \E i \in FetchIds, answer \in ScreenAnswers : fetchLanded(i, answer)

SpecSelect == SelectInit /\ [][SelectNext]_vars

\* the operator toggles checkboxes of the role on display
ToggleInit ==
  /\ assignments = InitialAssignments
  /\ user \in Users
  /\ permissions = permissionNames(RolePermissionRows(user.role_id))
  /\ loading = FALSE
  /\ pc = [c \in Callers |-> IF c = "mount" THEN "done" ELSE "idle"]
  /\ arg = [c \in Callers |-> Null]
  /\ toast = "none"
  /\ ev = NoEvent
  /\ \E roleId \in {""} \cup {toString(r) : r \in ScreenRoleIds} :
       RoleSelected(roleId)
  /\ NothingRendered
  /\ ApiIdle
  /\ NoPage

ToggleNext ==
  \/ \E i \in ToggleIds, p \in ScreenPermIds : togglePermission(i, p)
  \/ \E i \in ToggleIds, answer \in ScreenAnswers : mutationLanded(i, answer)
  \/ \E i \in ToggleIds : refetchAnswered(i)
  \/ \E i \in ToggleIds, answer \in ScreenAnswers : refetchLanded(i, answer)

SpecToggle == ToggleInit /\ [][ToggleNext]_vars

(***************************************************************************)
(* Properties of the toggle protocol.                                      *)
(***************************************************************************)
\* the permission ids on display
DisplayedIds ==
  {rolePermissions[k].permission_id : k \in DOMAIN rolePermissions}

\* call i has returned
Done(i) == toggles[i].pc = "done"

\* calls i and i + 1 are the only ones made, both for the same role and
\* permission, and both have returned after a mutation the API accepted
\* and a refetch that succeeded
ToggledTwice(i) ==
  /\ i + 1 \in ToggleIds
  /\ Done(i) /\ Done(i + 1)
  /\ toggles[i].role = toggles[i + 1].role
  /\ toggles[i].perm = toggles[i + 1].perm
  /\ toggles[i].mut = "ok" /\ toggles[i + 1].mut = "ok"
  /\ toggles[i].ans = "ok" /\ toggles[i + 1].ans = "ok"
  /\ \A j \in ToggleIds \ {i, i + 1} : toggles[j].pc = "idle"

\* C14: two successive togglePermission(p) calls with r selected issue one
\* grant and one revoke and leave the API's assignment of (r, p) as it was
\* before them.
C14_DoubleToggleRestores ==
  \A i \in ToggleIds :
    ToggledTwice(i)
      => LET r == parseInt(toggles[i].role)
             p == toggles[i].perm
         IN  /\ {toggles[i].calls[1].method, toggles[i + 1].calls[1].method}
                  = {"POST", "DELETE"}
             /\ (p \in assignments[r]) <=> (p \in InitialAssignments[r])

\* C15: a permitted togglePermission(p) issues one mutation for (r, p),
\* DELETE when p is in the list at the moment of the toggle and POST
\* otherwise; when the call returns it has issued that mutation only, if
\* the mutation rejected, and that mutation followed by one GET of r's
\* list otherwise.
C15_OneMutationThenOneRefetch ==
  [][\A i \in ToggleIds :
       /\ (toggles[i].pc = "idle" /\ toggles'[i].pc = "mutating")
            => toggles'[i].calls =
                 <<Call(IF toggles'[i].perm \in DisplayedIds
                          THEN "DELETE" ELSE "POST",
                        parseInt(selectedRole), toggles'[i].perm)>>
       /\ (toggles[i].pc # "done" /\ toggles'[i].pc = "done")
            => /\ Len(toggles'[i].calls)
                    = (IF toggles'[i].mut = "throw" THEN 1 ELSE 2)
               /\ toggles'[i].calls[1] = toggles[i].calls[1]
               /\ toggles'[i].calls[1].method \in {"POST", "DELETE"}
               /\ toggles'[i].mut # "throw"
                    => toggles'[i].calls[2]
                         = Call("GET", toggles'[i].calls[1].role_id, 0)]_vars

\* C15 witness: a revoke of a listed permission has returned after its
\* refetch, and a later toggle of another permission was a grant.
C15_Witness ==
  \E i, j \in ToggleIds :
    /\ Done(i) /\ toggles[i].mut # "throw"
    /\ toggles[i].calls[1].method = "DELETE" /\ Len(toggles[i].calls) = 2
    /\ toggles[j].pc # "idle" /\ toggles[j].calls[1].method = "POST"

\* C16: when the refetch of a toggle lands with success, after its grant
\* (revoke) was accepted and no other mutation of the role was applied
\* between the two, the list on display contains (does not contain) the
\* permission.
C16_RefetchShowsTheMutation ==
  [][\A i \in ToggleIds :
       (/\ toggles[i].pc = "answered" /\ toggles'[i].pc = "done"
        /\ toggles'[i].ans = "ok"
        /\ toggles[i].mut = "ok"
        /\ toggles[i].clean)
         => ((toggles[i].perm \in DisplayedIds') <=> ~toggles[i].had)]_vars

\* C16 witness: a grant of a permission that was not listed has returned
\* and the list on display now holds it.
C16_Witness ==
  \E i \in ToggleIds :
    /\ Done(i) /\ toggles[i].mut = "ok" /\ toggles[i].ans = "ok"
    /\ toggles[i].clean /\ ~toggles[i].had
    /\ toggles[i].perm \notin InitialAssignments[parseInt(toggles[i].role)]
    /\ toggles[i].perm \in DisplayedIds

\* C18: a toggle whose grant / revoke failed (rejected, or answered
\* success:false) ends with the Error notification, never with Success.
C18_FailedMutationToastsError ==
  \A i \in ToggleIds :
    (/\ Done(i)
     /\ toggles[i].mut \in {"fail", "throw"}
     /\ \A j \in ToggleIds \ {i} : toggles[j].pc = "idle")
      => toast = "Error"

(***************************************************************************)
(* Properties of role selection.                                           *)
(***************************************************************************)
\* no fetchRolePermissions call is in flight
FetchesSettled == \A i \in FetchIds : fetches[i].pc \in {"idle", "done"}

\* C17: once a role is selected and its fetch has settled, the list holds
\* rows of that role only.
C17_ListBelongsToSelectedRole ==
  (selectedRole # "" /\ FetchesSettled)
    => \A k \in DOMAIN rolePermissions :
         rolePermissions[k].role_id = parseInt(selectedRole)

(***************************************************************************)
(* ApiClient.request and handleRateLimit.  A message is the sequence of    *)
(* its words, so that String.includes is a search for a run of words.      *)
(***************************************************************************)
RateLimitMessage ==
  <<"Rate", "limit", "exceeded.", "Please", "try", "again", "later.">>

NetworkErrorMessage == <<"Network", "error", "occurred">>

\* the messages of the errors fetch and response.json() reject with
FetchErrorMessage == <<"Failed", "to", "fetch">>
JsonErrorMessage == <<"Unexpected", "end", "of", "JSON", "input">>

\* the message field of a response body; <<>> is an absent or empty one
ServerMessages ==
  {<<>>, <<"Forbidden">>, <<"Role", "updated">>,
   <<"Rate", "limit", "reached">>, <<"rate", "limit", "reached">>}

Statuses == {200, 201, 204, 400, 403, 429, 500, 503}

StatusWord ==
  [s \in Statuses |->
     CASE s = 200 -> "200:" [] s = 201 -> "201:" [] s = 204 -> "204:"
       [] s = 400 -> "400:" [] s = 403 -> "403:" [] s = 429 -> "429:"
       [] s = 500 -> "500:" [] s = 503 -> "503:"]

StatusText ==
  [s \in Statuses |->
     CASE s = 200 -> <<"OK">>
       [] s = 201 -> <<"Created">>
       [] s = 204 -> <<"No", "Content">>
       [] s = 400 -> <<"Bad", "Request">>
       [] s = 403 -> <<"Forbidden">>
       [] s = 429 -> <<"Too", "Many", "Requests">>
       [] s = 500 -> <<"Internal", "Server", "Error">>
       [] s = 503 -> <<"Service", "Unavailable">>]

\* interface ApiResponse
ApiResponse ==
  [success : BOOLEAN, message : ServerMessages, data : {"absent", "rows"}]

\* a response body: JSON text of an envelope, or text that is not JSON
Bodies ==
  {[kind |-> "invalid"]} \cup {[kind |-> "json", value |-> e] : e \in ApiResponse}

\* what fetch(url, config) settles with: a Response, or a rejection with
\* an Error (TypeError) or with a value that is not an Error
HttpAnswers ==
  UNION {{[kind |-> "response", status |-> s, statusText |-> t, body |-> b] :
            t \in {StatusText[s], <<>>}, b \in Bodies} : s \in Statuses}
  \cup {[kind |-> "reject", isError |-> TRUE, message |-> FetchErrorMessage],
        [kind |-> "reject", isError |-> FALSE, message |-> <<>>]}

\* Response.ok
ok(response) == response.status >= 200 /\ response.status <= 299

\* `HTTP ${response.status}: ${response.statusText}`
HttpMessage(response) ==
  <<"HTTP", StatusWord[response.status]>> \o response.statusText

\* message.includes(part)
stringIncludes(message, part) ==
  \E k \in 0..(Len(message) - Len(part)) :
    SubSeq(message, k + 1, k + Len(part)) = part

ThrownError(message) == [kind |-> "thrown", message |-> message, calls |-> 1]

ReturnedEnvelope(data) == [kind |-> "returned", value |-> data, calls |-> 1]

\* request that treats a success:false envelope as a failure
requestThrowsOnFailure(answer) ==
  IF answer.kind = "reject"
  THEN ThrownError(IF answer.isError THEN answer.message ELSE NetworkErrorMessage)
  ELSE IF ~ok(answer)
  THEN IF answer.status = 429
       THEN ThrownError(RateLimitMessage)
       ELSE LET message == IF answer.body.kind = "json"
                           THEN answer.body.value.message ELSE <<>>
            IN  ThrownError(IF message # <<>> THEN message ELSE HttpMessage(answer))
  ELSE IF answer.body.kind = "json"
  THEN IF answer.body.value.success
       THEN ReturnedEnvelope(answer.body.value)
       ELSE ThrownError(answer.body.value.message)
  ELSE ThrownError(JsonErrorMessage)

\* request(endpoint, options), given what its one fetch settles with
request(answer) ==
  IF answer.kind = "reject"
  THEN ThrownError(IF answer.isError THEN answer.message ELSE NetworkErrorMessage)
  ELSE IF ~ok(answer)
  THEN IF answer.status = 429
       THEN ThrownError(RateLimitMessage)
       ELSE LET message == IF answer.body.kind = "json"
                           THEN answer.body.value.message ELSE <<>>
            IN  ThrownError(IF message # <<>> THEN message ELSE HttpMessage(answer))
  ELSE IF answer.body.kind = "json"
  THEN ReturnedEnvelope(answer.body.value)
  ELSE ThrownError(JsonErrorMessage)

handleRateLimit(error) ==
  IF stringIncludes(error.message, <<"Rate", "limit">>)
  THEN [title |-> "Rate Limit Exceeded",
        description |-> <<"Please", "wait", "a", "moment", "before",
                          "trying", "again.">>,
        variant |-> "destructive"]
  ELSE [title |-> "Error", description |-> error.message,
        variant |-> "destructive"]

ApiFrame ==
  UNCHANGED <<sessionVars, toast, assignments, screenVars, renderVars,
              loadVars>>

ApiInit ==
  /\ assignments = InitialAssignments
  /\ user = Null
  /\ permissions = <<>>
  /\ loading = FALSE
  /\ pc = [c \in Callers |-> IF c = "mount" THEN "done" ELSE "idle"]
  /\ arg = [c \in Callers |-> Null]
  /\ toast = "none"
  /\ ev = NoEvent
  /\ ScreenUnmounted
  /\ NothingRendered
  /\ httpAnswer \in HttpAnswers
  /\ apiResult = [kind |-> "none"]
  /\ fetchCalls = 0
  /\ NoPage

\* a caller awaits api.request(...)
requestCall ==
  /\ apiResult.kind = "none"
  /\ apiResult' = request(httpAnswer)
  /\ fetchCalls' = fetchCalls + request(httpAnswer).calls
  /\ UNCHANGED httpAnswer
  /\ ApiFrame

\* the caller's catch passes the error to handleRateLimit
classify ==
  /\ apiResult.kind = "thrown"
  /\ apiResult' = [kind |-> "classified", message |-> apiResult.message,
                   toast |-> handleRateLimit(apiResult)]
  /\ UNCHANGED <<httpAnswer, fetchCalls>>
  /\ ApiFrame

ApiNext == requestCall \/ classify

SpecApi == ApiInit /\ [][ApiNext]_vars

\* the request has settled with an error
Threw == apiResult.kind \in {"thrown", "classified"}

\* the answer was a response with this status
Status(s) == httpAnswer.kind = "response" /\ httpAnswer.status = s

\* the message of the response's body, <<>> when it has none
BodyMessage ==
  IF httpAnswer.body.kind = "json" THEN httpAnswer.body.value.message ELSE <<>>

\* C19: request throws for every transport failure and every non-2xx
\* status; the error has a message, the server's when the body has one and
\* else the HTTP status text; and handleRateLimit classifies the error as
\* 'Rate Limit Exceeded' exactly when the status was 429.
C19_ThrowsAndOnly429IsRateLimited ==
  apiResult.kind # "none"
    => /\ (httpAnswer.kind = "reject" \/ ~ok(httpAnswer))
            => /\ Threw
               /\ apiResult.message # <<>>
       /\ (httpAnswer.kind = "response" /\ ~ok(httpAnswer) /\ ~Status(429))
            => apiResult.message =
                 (IF BodyMessage # <<>> THEN BodyMessage
                  ELSE HttpMessage(httpAnswer))
       /\ apiResult.kind = "classified"
            => ((apiResult.toast.title = "Rate Limit Exceeded") <=> Status(429))

\* C20 as stated: every 2xx response makes request return the body's
\* envelope unchanged, after one network call.
C20_Every2xxReturnsTheEnvelope ==
  (apiResult.kind # "none" /\ httpAnswer.kind = "response" /\ ok(httpAnswer))
    => /\ apiResult.kind = "returned"
       /\ httpAnswer.body.kind = "json"
       /\ apiResult.value = httpAnswer.body.value
       /\ fetchCalls = 1

\* C20 amended: every 2xx response whose body parses as JSON makes request
\* return the parsed envelope unchanged, success:false included, after one
\* network call; a 2xx response whose body does not parse makes it throw
\* the parse error, also after one network call.
C20_Parsable2xxReturnsTheEnvelope ==
  (apiResult.kind # "none" /\ httpAnswer.kind = "response" /\ ok(httpAnswer))
    => /\ fetchCalls = 1
       /\ IF httpAnswer.body.kind = "json"
          THEN /\ apiResult.kind = "returned"
               /\ apiResult.value = httpAnswer.body.value
          ELSE /\ Threw
               /\ apiResult.message = JsonErrorMessage

\* C20 witness: a 201 answer carrying a success:false envelope has been
\* returned to the caller.
C20_Witness ==
  /\ Status(201)
  /\ apiResult.kind = "returned"
  /\ ~apiResult.value.success
  /\ apiResult.value.message = <<"Forbidden">>
  /\ fetchCalls = 1

(***************************************************************************)
(* The session state machine.                                              *)
(***************************************************************************)
Hydrating == loading

Authenticated == ~loading /\ user # Null

Anonymous == ~loading /\ user = Null

\* the step is the return of the hydrate the mount effect started
HydrateSettles == pc["mount"] # "done" /\ pc'["mount"] = "done"

\* the step resumes the fetchUserData of a login whose POST /login succeeded
LoginProceeds == ev'.caller = "login" /\ ev'.op \in {"userdata", "perms"}

\* the step is the rest of logout's try block
LogoutClears == ev'.op = "logout" /\ ev'.outcome \in {"ok", "fail"}

\* C21: the session leaves Hydrating only when the hydrate started at
\* application start settles, goes from Anonymous to Authenticated only
\* through a successful login and from Authenticated to Anonymous only
\* through logout; loading never becomes true again, and user goes from
\* non-null to null only through logout.
C21_SessionTransitions ==
  [][/\ (Hydrating /\ ~Hydrating') => HydrateSettles
     /\ (Anonymous /\ Authenticated') => LoginProceeds
     /\ (Authenticated /\ Anonymous') => LogoutClears
     /\ ~Hydrating => ~Hydrating'
     /\ (user # Null /\ user' = Null) => LogoutClears]_vars

(***************************************************************************)
(* Overlapping selections.                                                 *)
(***************************************************************************)
\* fetch i, issued before fetch j, lands with success after j has landed
\* with success; j is the fetch of the role now selected, i is the fetch of
\* another role, and nothing else is in flight
LandsLate(i, j) ==
  /\ i < j
  /\ fetches[i].pc = "answered" /\ fetches'[i].pc = "done"
  /\ fetches'[i].ans = "ok"
  /\ fetches[j].pc = "done" /\ fetches[j].ans = "ok"
  /\ fetches[j].role = selectedRole
  /\ fetches[i].role # selectedRole
  /\ \A k \in FetchIds \ {i, j} : fetches[k].pc \in {"idle", "done"}

\* C22: when role A is selected, then role B before A's fetch has returned,
\* and A's response lands after B's, the screen comes to rest with B
\* selected and A's rows as the list on display.
C22_StaleResponseOverwrites ==
  [][\A i, j \in FetchIds :
       LandsLate(i, j)
         => /\ selectedRole' = fetches[j].role
            /\ FetchesSettled'
            /\ rolePermissions'
                 = RolePermissionRows(parseInt(fetches[i].role))]_vars

\* C22 witness: role 1 then role 2 were selected, both fetches succeeded,
\* nothing is in flight, role 2 is selected and the list is role 1's.
C22_Witness ==
  /\ fetches[1].role = "1" /\ fetches[1].pc = "done" /\ fetches[1].ans = "ok"
  /\ fetches[2].role = "2" /\ fetches[2].pc = "done" /\ fetches[2].ans = "ok"
  /\ FetchesSettled
  /\ selectedRole = "2"
  /\ rolePermissions = RolePermissionRows(1)
  /\ rolePermissions # RolePermissionRows(2)

(***************************************************************************)
(* Initial load of the pages.  The router mounts one page; its mount       *)
(* effect issues the page's requests, each request settles on its own, and *)
(* the rest of the load function runs once its await is over.              *)
(***************************************************************************)
Pages == {"Users", "Roles", "Permissions", "RolePermissions", "Dashboard"}

PagePath(name) ==
  CASE name = "Users" -> "/users"
    [] name = "Roles" -> "/roles"
    [] name = "Permissions" -> "/permissions"
    [] name = "RolePermissions" -> "/role-permissions"
    [] name = "Dashboard" -> "/dashboard"

ReadNames == {"user.read", "role.read", "permission.read"}

\* the list each read permission opens
Endpoint(permission) ==
  CASE permission = "user.read" -> "/users"
    [] permission = "role.read" -> "/roles"
    [] permission = "permission.read" -> "/permissions"

\* how a list request can settle; "nodata" is success:true without a list
LoadAnswers == {"ok", "fail", "nodata", "throw"}

\* the data of GET /users, /roles, /permissions
ListData(endpoint) ==
  CASE endpoint = "/users"
         -> [i \in 1..NumUsers |-> [id |-> i, active |-> i % 2 = 1]]
    [] endpoint = "/roles" -> [i \in 1..NumUsers |-> Role(i)]
    [] endpoint = "/permissions" -> [i \in 1..NumPerms |-> Permission(i)]

\* the read permissions hasPermission grants in the current render
HeldNow == {p \in ReadNames : hasPermission(p)}

\* promises.push(api.get(...)) of fetchDashboardData
DashboardCalls(held) ==
  (IF "user.read" \in held THEN <<"/users">> ELSE <<>>)
  \o (IF "role.read" \in held THEN <<"/roles">> ELSE <<>>)
  \o (IF "permission.read" \in held THEN <<"/permissions">> ELSE <<>>)

\* the requests the mount effect of a page issues
MountCalls(name, held) ==
  CASE name = "Users" -> <<"/users">>
    [] name = "Roles" -> <<"/roles">>
    [] name = "Permissions" -> <<"/permissions">>
    [] name = "RolePermissions" -> <<"/roles", "/permissions">>
    [] name = "Dashboard" -> DashboardCalls(held)

\* the page right after its mount effect; only the Dashboard's load reads
\* hasPermission, through the closure of the render that created the effect
MountedPage(name) ==
  LET held == IF name = "Dashboard" THEN HeldNow ELSE {}
      calls == MountCalls(name, held)
  IN  [name |-> name, pc |-> "loading", loading |-> TRUE, held |-> held,
       calls |-> calls, results |-> [k \in DOMAIN calls |-> "pending"],
       stats |-> ZeroStats, toast |-> "none"]

LoadFrame ==
  UNCHANGED <<sessionVars, toast, assignments, screenVars, renderVars,
              apiVars>>

\* the router renders the element of the page's route and React runs the
\* page's mount effect
mountPage(name) ==
  /\ page.name = "none"
  /\ RouteElement(PagePath(name)).view = "children"
  /\ page' = MountedPage(name)
  /\ LoadFrame

\* request k of the page settles
callSettled(k, answer) ==
  /\ k \in DOMAIN page.results
  /\ page.results[k] = "pending"
  /\ answer \in LoadAnswers
  /\ page' = [page EXCEPT !.results[k] = answer]
  /\ LoadFrame

\* the await of the load function is over: Promise.all rejects with the
\* first rejection, Promise.allSettled and a single request wait for all
AwaitOver(p) ==
  \/ \A k \in DOMAIN p.results : p.results[k] # "pending"
  \/ /\ p.name = "RolePermissions"
     /\ \E k \in DOMAIN p.results : p.results[k] = "throw"

\* let userIndex / roleIndex / permissionIndex of fetchDashboardData
userIndex == 0

roleIndex(held) == IF "user.read" \in held THEN 1 ELSE 0

permissionIndexAlwaysLast(held) == 2

permissionIndex(held) ==
  IF "user.read" \in held /\ "role.read" \in held THEN 2
  ELSE IF "user.read" \in held \/ "role.read" \in held THEN 1
  ELSE 0

\* hasPermission(..) && results[index]?.status === 'fulfilled', then
\* value.success
ReadsResult(p, permission, index) ==
  /\ permission \in p.held
  /\ index + 1 \in DOMAIN p.results
  /\ p.results[index + 1] \in {"ok", "nodata"}

\* value.data.length / value.data.filter throw a TypeError without data
ThrowsTypeError(p) ==
  \/ ReadsResult(p, "user.read", userIndex)
       /\ p.results[userIndex + 1] = "nodata"
  \/ ReadsResult(p, "role.read", roleIndex(p.held))
       /\ p.results[roleIndex(p.held) + 1] = "nodata"
  \/ ReadsResult(p, "permission.read", permissionIndex(p.held))
       /\ p.results[permissionIndex(p.held) + 1] = "nodata"

\* u => u.active
Active(item) == "active" \in DOMAIN item /\ item.active

Length(p, permission, index) ==
  IF ReadsResult(p, permission, index)
    THEN Len(ListData(p.calls[index + 1]))
    ELSE 0

ActiveLength(p, index) ==
  IF ReadsResult(p, "user.read", index)
    THEN LET data == ListData(p.calls[index + 1])
         IN  Cardinality({i \in DOMAIN data : Active(data[i])})
    ELSE 0

\* the stats fetchDashboardData leaves behind: newStats, or the old stats
\* when the try block threw before setStats
fetchDashboardData(p) ==
  IF ThrowsTypeError(p) THEN p.stats
  ELSE [totalUsers |-> Length(p, "user.read", userIndex),
        totalRoles |-> Length(p, "role.read", roleIndex(p.held)),
        totalPermissions |->
          Length(p, "permission.read", permissionIndex(p.held)),
        activeUsers |-> ActiveLength(p, userIndex)]

\* the load function's try block ends in its catch
LoadThrows(p) ==
  CASE p.name = "Dashboard" -> ThrowsTypeError(p)
    [] p.name = "RolePermissions"
         -> \E k \in DOMAIN p.results : p.results[k] = "throw"
    [] OTHER -> \E k \in DOMAIN p.results : p.results[k] # "ok"

\* the toast of the catch; the Dashboard's catch only logs
LoadToast(p) ==
  IF LoadThrows(p) /\ p.name # "Dashboard" THEN "Error" ELSE p.toast

\* a load function whose setLoading(false) ends the try block
LoadedPageNoFinally(p) ==
  [p EXCEPT !.pc = "done",
            !.loading = LoadThrows(p),
            !.stats = IF p.name = "Dashboard" THEN fetchDashboardData(p) ELSE @,
            !.toast = LoadToast(p)]

\* the page after the rest of its load function: try, catch, and
\* finally { setLoading(false) }
LoadedPage(p) ==
  [p EXCEPT !.pc = "done",
            !.loading = FALSE,
            !.stats = IF p.name = "Dashboard" THEN fetchDashboardData(p) ELSE @,
            !.toast = LoadToast(p)]

pageLoaded ==
  /\ page.pc = "loading"
  /\ AwaitOver(page)
  /\ page' = LoadedPage(page)
  /\ LoadFrame

\* the application starts with any assignment of permissions to role 1
LoadInit ==
  /\ user = Null
  /\ permissions = <<>>
  /\ loading = TRUE
  /\ pc = [c \in Callers |-> IF c = "mount" THEN "init" ELSE "idle"]
  /\ arg = [c \in Callers |-> Null]
  /\ toast = "none"
  /\ ev = NoEvent
  /\ \E S \in SUBSET PermIds :
       assignments = [InitialAssignments EXCEPT ![1] = S]
  /\ ScreenUnmounted
  /\ NothingRendered
  /\ ApiIdle
  /\ NoPage

\* the start-up hydrate settles
hydrateUserData ==
  \/ \E u \in Users : fetchUserDataOk("mount", u)
  \/ \E answer \in Failures : fetchUserDataFailed("mount", answer)

hydratePermissions ==
  \E answer \in Failures \cup {"ok"} : fetchPermissionsSettled("mount", answer)

pageCallSettled ==
  \E k \in 1..Cardinality(ReadNames), answer \in LoadAnswers :
    callSettled(k, answer)

LoadNext ==
  \/ useEffectMount
  \/ hydrateUserData
  \/ hydratePermissions
  \/ \E name \in Pages : mountPage(name)
  \/ pageCallSettled
  \/ pageLoaded

\* React runs the mount effect, every request settles, and the event loop
\* resumes the function that awaits it
SpecLoad ==
  /\ LoadInit
  /\ [][LoadNext]_vars
  /\ WF_vars(useEffectMount)
  /\ WF_vars(hydrateUserData)
  /\ WF_vars(hydratePermissions)
  /\ WF_vars(pageCallSettled)
  /\ WF_vars(pageLoaded)

(***************************************************************************)
(* Properties of the initial loads.                                        *)
(***************************************************************************)
\* C23: when every request that is issued settles, the session's loading
\* flag eventually becomes false, and so does the loading flag of whichever
\* page is mounted, however the requests settle.
C23_LoadingEnds ==
  /\ <>(~loading)
  /\ (page.name # "none") ~> (~page.loading)

\* C23 witness: the RolePermissions page has stopped loading after one of
\* its two requests rejected and the other answered success:false, in a
\* session that has stopped loading.
C23_Witness ==
  /\ ~loading
  /\ page.name = "RolePermissions"
  /\ page.results = <<"throw", "fail">>
  /\ page.pc = "done"
  /\ ~page.loading

\* the result of the page's request to an endpoint, "none" without one
OwnResult(endpoint) ==
  IF \E k \in DOMAIN page.calls : page.calls[k] = endpoint
    THEN page.results[CHOOSE k \in DOMAIN page.calls : page.calls[k] = endpoint]
    ELSE "none"

\* the statistic the Dashboard shows for a read permission
Shown(permission) ==
  CASE permission = "user.read" -> page.stats.totalUsers
    [] permission = "role.read" -> page.stats.totalRoles
    [] permission = "permission.read" -> page.stats.totalPermissions

\* the index fetchDashboardData computes for a read permission
IndexOf(permission) ==
  CASE permission = "user.read" -> userIndex
    [] permission = "role.read" -> roleIndex(page.held)
    [] permission = "permission.read" -> permissionIndex(page.held)

\* hydration is over, the Dashboard's load is over, nothing is in flight
DashboardAtRest ==
  /\ pc["mount"] = "done"
  /\ page.name = "Dashboard"
  /\ page.pc = "done"
  /\ \A k \in DOMAIN page.results : page.results[k] # "pending"

\* C29: for each read permission the user holds after hydration, the
\* Dashboard has fetched the corresponding list by the time everything has
\* settled, and shows its count when that request succeeded, whether it
\* was mounted before or after hydration completed.
C29_DashboardFetchesWhatIsHeld ==
  DashboardAtRest
    => \A p \in HeldNow :
         /\ OwnResult(Endpoint(p)) # "none"
         /\ (OwnResult(Endpoint(p)) = "ok" /\ ~ThrowsTypeError(page))
              => Shown(p) = Len(ListData(Endpoint(p)))

\* C30: when fetchDashboardData has run, the index computed for each held
\* read permission is the position of that permission's own request; a
\* statistic whose permission is not held or whose request rejected or
\* answered success:false is 0; a statistic whose request succeeded is the
\* length of the list of its own endpoint.
C30_StatisticsReadTheirOwnResponse ==
  (page.name = "Dashboard" /\ page.pc = "done")
    => \A p \in ReadNames :
         /\ p \in page.held
              => /\ IndexOf(p) + 1 \in DOMAIN page.calls
                 /\ page.calls[IndexOf(p) + 1] = Endpoint(p)
         /\ (p \notin page.held \/ OwnResult(Endpoint(p)) \in {"throw", "fail"})
              => Shown(p) = 0
         /\ (p \in page.held /\ OwnResult(Endpoint(p)) = "ok"
               /\ ~ThrowsTypeError(page))
              => Shown(p) = Len(ListData(Endpoint(p)))

\* C30 witness: role.read and permission.read are held without user.read;
\* /roles rejected and /permissions succeeded, and the Dashboard shows no
\* roles and every permission.
C30_Witness ==
  /\ page.name = "Dashboard" /\ page.pc = "done"
  /\ page.held = {"role.read", "permission.read"}
  /\ page.calls = <<"/roles", "/permissions">>
  /\ page.results = <<"throw", "ok">>
  /\ page.stats.totalUsers = 0
  /\ page.stats.totalRoles = 0
  /\ page.stats.totalPermissions = NumPerms

(***************************************************************************)
(* AuthProvider: register; the operator of the assignment screen.          *)
(***************************************************************************)
\* register(name, email, password, roleId): issues POST /register
registerCall ==
  /\ Mounted
  /\ pc["register"] = "idle"
  /\ pc' = [pc EXCEPT !["register"] = "register"]
  /\ ev' = Event("register", "register", "call", "none", FALSE)
  /\ UNCHANGED <<user, permissions, loading, arg, toast, assignments, otherVars>>

registerToast(answer) ==
  CASE answer = "ok" -> "Registration successful"
    [] answer = "fail" -> "Registration failed"
    [] answer = "throw" -> "Registration error"

\* POST /register settles: a toast, and true only for success:true
registerSettled(answer) ==
  /\ pc["register"] = "register"
  /\ answer \in {"ok", "fail", "throw"}
  /\ toast' = registerToast(answer)
  /\ pc' = [pc EXCEPT !["register"] = "idle"]
  /\ ev' = Event("register", "register", answer, "register", answer = "ok")
  /\ UNCHANGED <<user, permissions, loading, arg, assignments, otherVars>>

\* no call of the operator is in flight
OperatorAtRest ==
  /\ pc["register"] = "idle"
  /\ \A i \in ToggleIds : toggles[i].pc \in {"idle", "done"}

\* an operator who makes one gesture at a time: a checkbox of the role on
\* display or the registration of an account, then waits for it to finish
OperatorNext ==
  \/ /\ OperatorAtRest
     /\ \/ \E i \in ToggleIds, p \in ScreenPermIds : togglePermission(i, p)
        \/ registerCall
  \/ \E i \in ToggleIds, answer \in ScreenAnswers : mutationLanded(i, answer)
  \/ \E i \in ToggleIds : refetchAnswered(i)
  \/ \E i \in ToggleIds, answer \in ScreenAnswers : refetchLanded(i, answer)
  \/ \E answer \in {"ok", "fail", "throw"} : registerSettled(answer)

SpecOperator == ToggleInit /\ [][OperatorNext]_vars

\* the step belongs to hydrate, login, logout or refreshPermissions
SessionWriter ==
  /\ ev' # ev
  /\ ev'.op \in {"userdata", "perms", "logout"}
  /\ ev'.caller \in {"mount", "login", "logout", "refresh"}

\* C24: user and the permission set change only in steps of hydrate, login,
\* logout and refreshPermissions; register and togglePermission leave them
\* as they are, also when the role toggled is the user's own.
C24_OnlySessionCallsWriteSession ==
  [][(user' # user \/ permissions' # permissions) => SessionWriter]_vars

\* C24 witness: a revoke on the user's own role has been applied by the API
\* and has returned, a register call has returned, and the session still
\* holds the permission that was revoked.
C24_Witness ==
  \E i \in ToggleIds :
    /\ Done(i) /\ toggles[i].mut = "ok" /\ toggles[i].ans = "ok"
    /\ toggles[i].had
    /\ parseInt(toggles[i].role) = user.role_id
    /\ toggles[i].perm \notin assignments[user.role_id]
    /\ hasPermission(PermNameTable[toggles[i].perm])
    /\ ev.returned = "register"

(***************************************************************************)
(* Responses that land late in the session store.                          *)
(***************************************************************************)
\* logout() has just returned after GET /logout resolved
LoggedOut == ev.returned = "logout" /\ ev.outcome \in {"ok", "fail"}

\* C25: after logout() has completed successfully, and as long as no login
\* is started, user stays null and the permission set stays empty: a
\* response of a hydrate, login or refreshPermissions that was in flight
\* when logout ran does not re-populate them.  Stated for the step that
\* follows logout's return.
C25_LoggedOutStaysLoggedOut ==
  [][(LoggedOut /\ ev'.op # "login")
       => (user' = Null /\ permissions' = <<>>)]_vars

\* C26: whenever user is non-null, the permission set is empty or is the
\* list of names a resolution for that user's role_id returns.
C26_PermissionsBelongToTheUsersRole ==
  user # Null
    => \/ permissions = <<>>
       \/ permissions = permissionNames(RolePermissionRows(user.role_id))

(***************************************************************************)
(* Concurrent toggles and the guard of togglePermission.                   *)
(***************************************************************************)
\* every toggle that was made has returned after an accepted mutation and
\* a successful refetch, all for the role on display and each for another
\* permission
TogglesSettled ==
  /\ selectedRole # ""
  /\ \E i \in ToggleIds : Done(i)
  /\ \A i \in ToggleIds :
       \/ toggles[i].pc = "idle"
       \/ /\ Done(i) /\ toggles[i].mut = "ok" /\ toggles[i].ans = "ok"
          /\ toggles[i].role = selectedRole
  /\ \A i, j \in ToggleIds :
       (i # j /\ Done(i) /\ Done(j)) => toggles[i].perm # toggles[j].perm

\* C27: once concurrent toggles of different permissions of the selected
\* role have all settled successfully, the permissions on display are the
\* ones the API holds for the role.
C27_DisplayMatchesServerAtRest ==
  TogglesSettled => DisplayedIds = assignments[parseInt(selectedRole)]

\* togglePermission returns at its guard
GuardFails == selectedRole = "" \/ ~hasPermission("permission.assign")

\* C28: a togglePermission call made with no role selected, or without
\* 'permission.assign' in the session, issues no request and leaves the
\* assignment list and the changes set as they are.
C28_GuardedToggleDoesNothing ==
  [][GuardFails
       => UNCHANGED <<toggles, rolePermissions, changes, assignments>>]_vars

\* C28 witness: a user without 'permission.assign' has a role on display
\* and a togglePermission call has returned at the guard.
C28_Witness ==
  /\ screenEv.op = "toggle" /\ screenEv.outcome = "skipped"
  /\ selectedRole # ""
  /\ ~hasPermission("permission.assign")
  /\ \A i \in ToggleIds : toggles[i].pc = "idle"

====
